---- MODULE Spec2Model ----
(***************************************************************************)
(* XChaCha20 (chacha20/src/xchacha20.rs): the HChaCha20 subkey derivation  *)
(* and the XChaCha20 adapter around the ChaCha20 stream cipher.            *)
(*                                                                         *)
(* A u32 is kept as a pair <<hi, lo>> of 16-bit halves (value hi*2^16+lo), *)
(* so that all arithmetic stays modulo 2^32.  Byte arrays and the 16-word  *)
(* state are functions indexed from 0, as in the source.                   *)
(***************************************************************************)
EXTENDS Integers, Sequences, FiniteSets, TLC

VARIABLES
    feature_zeroize,  \* cfg(feature = "zeroize") of the build
    pc,               \* position of the caller / of XChaCha20::new
    key, iv,          \* arguments of the current XChaCha20::new call
    state,            \* hchacha20: let mut state
    iter, call,       \* hchacha20: loop iteration, next call within it
    subkey,           \* new: let mut subkey
    padded_iv,        \* new: let mut padded_iv
    result,           \* new: let mut result, then the caller's XChaCha20
    observed,         \* the caller's last read through Deref
    direct,           \* a ChaCha20 the caller builds and drives directly
    trace,            \* history: the quarter_round calls of this hchacha20
    earlier           \* history: one earlier invocation, kept for comparison

vars == << feature_zeroize, pc, key, iv, state, iter, call, subkey, padded_iv,
           result, observed, direct, trace, earlier >>

---------------------------------------------------------------------------
(* 32-bit word arithmetic *)

RECURSIVE Pow2(_)
Pow2(n) == IF n = 0 THEN 1 ELSE 2 * Pow2(n - 1)

\* 2^16: a u32 is hi * Half + lo
Half == Pow2(16)

RECURSIVE XorBits(_, _, _)
XorBits(x, y, n) ==
    IF n = 0 THEN 0
    ELSE (((x % 2) + (y % 2)) % 2) + 2 * XorBits(x \div 2, y \div 2, n - 1)

\* u32 ^ u32
Xor32(x, y) == << XorBits(x[1], y[1], 16), XorBits(x[2], y[2], 16) >>

\* u32::wrapping_add
WrappingAdd(x, y) ==
    LET lo == x[2] + y[2]
        hi == x[1] + y[1] + (lo \div Half)
    IN  << hi % Half, lo % Half >>

\* u32::rotate_left
RotateLeft(x, n) ==
    LET w == IF n >= 16 THEN << x[2], x[1] >> ELSE x
        r == n % 16
    IN  IF r = 0 THEN w
        ELSE << ((w[1] * Pow2(r)) % Half) + (w[2] \div Pow2(16 - r)),
                ((w[2] * Pow2(r)) % Half) + (w[1] \div Pow2(16 - r)) >>

\* byteorder LE::read_u32 of the 4-byte chunk of `bytes` starting at `off`
ReadU32LE(bytes, off) ==
    << bytes[off + 2] + 256 * bytes[off + 3], bytes[off] + 256 * bytes[off + 1] >>

\* the k-th byte (k in 0..3) that LE::write_u32 stores for word w
ByteLE(w, k) ==
    IF k = 0 THEN w[2] % 256
    ELSE IF k = 1 THEN w[2] \div 256
    ELSE IF k = 2 THEN w[1] % 256
    ELSE w[1] \div 256

\* byteorder LE::write_u32 into the 4-byte chunk of `bytes` starting at `off`
WriteU32LE(bytes, off, w) ==
    [bytes EXCEPT ![off] = ByteLE(w, 0), ![off + 1] = ByteLE(w, 1),
                  ![off + 2] = ByteLE(w, 2), ![off + 3] = ByteLE(w, 3)]

ZeroWord == << 0, 0 >>

\* GenericArray::default() of n bytes
ZeroBytes(n) == [i \in 0..(n - 1) |-> 0]

\* a[lo..hi]
Slice(a, lo, hi) == [i \in 0..(hi - lo - 1) |-> a[lo + i]]

---------------------------------------------------------------------------
(* The ChaCha quarter round (chacha20 crate root, shared with ChaCha20) *)

quarter_round(a, b, c, d, st) ==
    LET a1 == WrappingAdd(st[a], st[b])
        d1 == RotateLeft(Xor32(st[d], a1), 16)
        c1 == WrappingAdd(st[c], d1)
        b1 == RotateLeft(Xor32(st[b], c1), 12)
        a2 == WrappingAdd(a1, b1)
        d2 == RotateLeft(Xor32(d1, a2), 8)
        c2 == WrappingAdd(c1, d2)
        b2 == RotateLeft(Xor32(b1, c2), 7)
    IN  [st EXCEPT ![a] = a2, ![b] = b2, ![c] = c2, ![d] = d2]

---------------------------------------------------------------------------
(* hchacha20 *)

\* the four constant words 0x61707865, 0x3320646e, 0x79622d32, 0x6b206574
StateConstants ==
    << << 24944, 30821 >>, << 13088, 25710 >>, << 31074, 11570 >>, << 27424, 25972 >> >>

\* let mut state = [0u32; 16]; state[0..4] = constants
StateWithConstants ==
    [i \in 0..15 |-> IF i < 4 THEN StateConstants[i + 1] ELSE ZeroWord]

\* variant: the chunks are read big-endian (BE::read_u32)
RECURSIVE LoadChunksBE(_, _, _, _)
LoadChunksBE(st, base, bytes, n) ==
    IF n = 0 THEN st
    ELSE LET s == LoadChunksBE(st, base, bytes, n - 1)
             off == 4 * (n - 1)
         IN  [s EXCEPT ![base + n - 1] =
                 << bytes[off + 1] + 256 * bytes[off], bytes[off + 3] + 256 * bytes[off + 2] >>]

\* for (i, chunk) in bytes.chunks(4).take(n).enumerate() { state[base + i] = LE::read_u32(chunk) }
RECURSIVE LoadChunks(_, _, _, _)
LoadChunks(st, base, bytes, n) ==
    IF n = 0 THEN st
    ELSE LET s == LoadChunks(st, base, bytes, n - 1)
         IN  [s EXCEPT ![base + n - 1] = ReadU32LE(bytes, 4 * (n - 1))]

\* number of 4-byte chunks of a byte array
NumChunks(bytes) == Cardinality(DOMAIN bytes) \div 4

\* variant: the key loop stops one chunk early (take(7))
InitialStateTake7(k, input) ==
    LoadChunks(LoadChunks(StateWithConstants, 4, k, 7), 12, input, NumChunks(input))

\* the state before the first quarter round
InitialState(k, input) ==
    LET s1 == LoadChunks(StateWithConstants, 4, k,
                         IF NumChunks(k) < 8 THEN NumChunks(k) ELSE 8)
    IN  LoadChunks(s1, 12, input, NumChunks(input))

\* for _ in 0..10
Iterations == 10

\* variant: the diagonal round is written before the column round
RoundCallsDiagonalFirst ==
    << << 0, 5, 10, 15 >>, << 1, 6, 11, 12 >>, << 2, 7, 8, 13 >>, << 3, 4, 9, 14 >>,
       << 0, 4, 8, 12 >>, << 1, 5, 9, 13 >>, << 2, 6, 10, 14 >>, << 3, 7, 11, 15 >> >>

\* variant: the second column call names word 12 instead of 13
RoundCallsOverlap ==
    << << 0, 4, 8, 12 >>, << 1, 5, 9, 12 >>, << 2, 6, 10, 14 >>, << 3, 7, 11, 15 >>,
       << 0, 5, 10, 15 >>, << 1, 6, 11, 12 >>, << 2, 7, 8, 13 >>, << 3, 4, 9, 14 >> >>

\* the eight quarter_round calls of one iteration, in program order
RoundCalls ==
    << << 0, 4, 8, 12 >>, << 1, 5, 9, 13 >>, << 2, 6, 10, 14 >>, << 3, 7, 11, 15 >>,
       << 0, 5, 10, 15 >>, << 1, 6, 11, 12 >>, << 2, 7, 8, 13 >>, << 3, 4, 9, 14 >> >>

\* the j-th call (j in 1..8) of an iteration applied to the state
ApplyCall(j, st) ==
    LET q == RoundCalls[j] IN quarter_round(q[1], q[2], q[3], q[4], st)

\* the first j calls of the loop body applied, in order, to the state, a [u32; 16]
RECURSIVE LoopBody(_, _)
LoopBody(st, j) ==
    IF j = 0 THEN st
    ELSE LET s == LoopBody(st, j - 1)
         IN  IF DOMAIN s = 0..15 THEN ApplyCall(j, s) ELSE s

\* n iterations of the loop applied to the state
RECURSIVE Permute(_, _)
Permute(st, n) ==
    IF n = 0 THEN st
    ELSE LET s == Permute(st, n - 1)
         IN  IF DOMAIN s = 0..15 THEN LoopBody(s, 8) ELSE s

\* output.chunks_mut(4).take(4) <- state[i]; .skip(4) <- state[i + 12]
RECURSIVE StoreChunks(_, _, _, _, _)
StoreChunks(output, first, st, base, n) ==
    IF n = 0 THEN output
    ELSE WriteU32LE(StoreChunks(output, first, st, base, n - 1),
                    4 * (first + n - 1), st[base + n - 1])

\* variant: the initial state is added back first, as the ChaCha20 block function does
OutputOfWithAdd(st) ==
    LET init == InitialState(key, Slice(iv, 0, 16))
        sum == [i \in 0..15 |-> WrappingAdd(st[i], init[i])]
    IN  StoreChunks(StoreChunks(ZeroBytes(32), 0, sum, 0, 4), 4, sum, 12, 4)

OutputOf(st) ==
    StoreChunks(StoreChunks(ZeroBytes(32), 0, st, 0, 4), 4, st, 12, 4)

\* the whole function
hchacha20(k, input) ==
    OutputOf(Permute(InitialState(k, input), Iterations))

---------------------------------------------------------------------------
(* ChaCha20 (chacha20 crate root): only its call contract is used *)

\* ChaCha20::new(key, nonce): owns copies of both, keystream position 0
ChaCha20_new(k, nonce) == [key |-> k, nonce |-> nonce, pos |-> 0]

\* apply_keystream / try_apply_keystream over len bytes
apply_keystream(c, len) == [c EXCEPT !.pos = c.pos + len]

\* seek(pos)
seek(c, pos) == [c EXCEPT !.pos = pos]

\* current_pos()
current_pos(c) == c.pos

---------------------------------------------------------------------------
(* XChaCha20 *)

\* no instance
NoCipher == << >>

\* variant: the suffix is copied to the front (padded_iv[..8])
PaddedIvFront(nonce) ==
    LET src == Slice(nonce, 16, 24)
    IN  [i \in 0..11 |-> IF i < 8 THEN src[i] ELSE ZeroBytes(12)[i]]

\* let mut padded_iv = GenericArray::default(); padded_iv[4..].copy_from_slice(&iv[16..])
PaddedIv(nonce) ==
    LET src == Slice(nonce, 16, 24)
    IN  [i \in 0..11 |-> IF i >= 4 THEN src[i - 4] ELSE ZeroBytes(12)[i]]

\* XChaCha20(ChaCha20::new(&subkey, &padded_iv))
XChaCha20(sk, piv) == << ChaCha20_new(sk, piv) >>

\* variant: a copy of the buffer is zeroed, the buffer itself is not
ZeroizedCopy(buf) == buf

\* subkey.as_mut_slice().zeroize()
Zeroized(buf) == [i \in DOMAIN buf |-> 0]

\* Deref::deref: &self.0
Deref(x) == x[1]

\* variant: deref_mut hands out a copy, so the store is lost
DerefMutStoreLost(x, c) == x

\* a store through DerefMut::deref_mut: *(&mut self.0) = c
DerefMutStore(x, c) == [x EXCEPT ![1] = c]

---------------------------------------------------------------------------
(* Inputs *)

NumInputs == 4
MaxPos == 3

\* key 0 and nonce prefix 0 are those of draft-arciszewski-xchacha-03, 2.2.1
TestKey == [i \in 0..31 |-> i]
TestInput == [i \in 0..15 |-> << 0, 0, 0, 9, 0, 0, 0, 74, 0, 0, 0, 0, 49, 65, 89, 39 >>[i + 1]]

KeyOf(k) == [i \in 0..31 |-> (TestKey[i] * (k + 1) + 37 * k) % 256]

\* nonce n has prefix number n \div 2 and suffix number n % 2
NonceOf(n) ==
    [i \in 0..23 |->
        IF i < 16 THEN (TestInput[i] + 91 * (n \div 2) * (i + 1)) % 256
        ELSE (64 + i + 113 * (n % 2) * (i - 14)) % 256]

\* input j is key number j \div 3 with nonce number j % 3
InputKey(j) == KeyOf(j \div 3)
InputNonce(j) == NonceOf(j % 3)

---------------------------------------------------------------------------
(* The state machine *)

\* no earlier invocation kept
NoEarlier == << >>

Init ==
    /\ feature_zeroize \in BOOLEAN
    /\ pc = "idle"
    /\ key = ZeroBytes(32)
    /\ iv = ZeroBytes(24)
    /\ state = [i \in 0..15 |-> ZeroWord]
    /\ iter = 0
    /\ call = 0
    /\ subkey = ZeroBytes(32)
    /\ padded_iv = ZeroBytes(12)
    /\ result = NoCipher
    /\ observed = 0
    /\ direct = NoCipher
    /\ trace = << >>
    /\ earlier = NoEarlier

\* the caller enters XChaCha20::new(key, iv)
New(j) ==
    /\ pc = "idle"
    /\ key' = InputKey(j)
    /\ iv' = InputNonce(j)
    /\ result' = NoCipher
    /\ direct' = NoCipher
    /\ trace' = << >>
    /\ pc' = "hchacha20"
    /\ earlier' = IF earlier = NoEarlier THEN earlier
                  ELSE [earlier EXCEPT !.since = IF @ < 2 THEN @ + 1 ELSE @]
    /\ UNCHANGED << feature_zeroize, state, iter, call, subkey, padded_iv,
                    observed >>

\* variant: the state array outlives the call and only key and nonce words are rewritten
HInitStale ==
    /\ pc = "hchacha20"
    /\ state' = LoadChunks(LoadChunks(state, 4, key, 8), 12, Slice(iv, 0, 16), 4)
    /\ iter' = 0
    /\ call' = 0
    /\ pc' = "rounds"
    /\ UNCHANGED << feature_zeroize, key, iv, subkey, padded_iv, result,
                    observed, direct, trace, earlier >>

\* hchacha20(key, iv[..16]): the state is set up
HInit ==
    /\ pc = "hchacha20"
    /\ state' = InitialState(key, Slice(iv, 0, 16))
    /\ iter' = 0
    /\ call' = 0
    /\ pc' = "rounds"
    /\ UNCHANGED << feature_zeroize, key, iv, subkey, padded_iv, result,
                    observed, direct, trace, earlier >>

\* one quarter_round call of the loop body
HQuarterRound ==
    /\ pc = "rounds"
    /\ iter < Iterations
    /\ state' = ApplyCall(call + 1, state)
    /\ trace' = Append(trace, RoundCalls[call + 1])
    /\ call' = (call + 1) % 8
    /\ iter' = IF call = 7 THEN iter + 1 ELSE iter
    /\ UNCHANGED << feature_zeroize, pc, key, iv, subkey, padded_iv, result,
                    observed, direct, earlier >>

\* the loop is over: the output is built and returned into subkey
HReturn ==
    /\ pc = "rounds"
    /\ iter >= Iterations
    /\ subkey' = OutputOf(state)
    /\ pc' = "pad"
    /\ UNCHANGED << feature_zeroize, key, iv, state, iter, call, padded_iv,
                    result, observed, direct, trace, earlier >>

\* padded_iv is filled
Pad ==
    /\ pc = "pad"
    /\ padded_iv' = PaddedIv(iv)
    /\ pc' = "construct"
    /\ UNCHANGED << feature_zeroize, key, iv, state, iter, call, subkey,
                    result, observed, direct, trace, earlier >>

\* what an invocation produced, as it stands right after the inner cipher is built;
\* `earlier` keeps one of them, with the number (up to 2) of calls begun since
Snapshot(r) ==
    [key |-> key, iv |-> iv, subkey |-> subkey, padded_iv |-> padded_iv, result |-> r]

\* the inner cipher is constructed; the caller builds its own from the same pair
Construct ==
    /\ pc = "construct"
    /\ result' = XChaCha20(subkey, padded_iv)
    /\ direct' = ChaCha20_new(subkey, padded_iv)
    /\ \E keep \in BOOLEAN :
          earlier' = IF keep /\ earlier = NoEarlier
                     THEN [since |-> 0, run |-> Snapshot(result')]
                     ELSE earlier
    /\ pc' = "zeroize"
    /\ UNCHANGED << feature_zeroize, key, iv, state, iter, call, subkey,
                    padded_iv, observed, trace >>

\* the cfg(feature = "zeroize") block, then `result` is returned
Return ==
    /\ pc = "zeroize"
    /\ subkey' = IF feature_zeroize THEN Zeroized(subkey) ELSE subkey
    /\ pc' = "ready"
    /\ UNCHANGED << feature_zeroize, key, iv, state, iter, call, padded_iv,
                    result, observed, direct, trace, earlier >>

\* keystream applied through the adapter (deref_mut), and to the direct cipher
ApplyKeystream(len) ==
    /\ pc = "ready"
    /\ current_pos(Deref(result)) + len <= MaxPos
    /\ result' = DerefMutStore(result, apply_keystream(Deref(result), len))
    /\ direct' = apply_keystream(direct, len)
    /\ UNCHANGED << feature_zeroize, pc, key, iv, state, iter, call, subkey,
                    padded_iv, observed, trace, earlier >>

\* seek through the adapter (deref_mut), and on the direct cipher
Seek(pos) ==
    /\ pc = "ready"
    /\ result' = DerefMutStore(result, seek(Deref(result), pos))
    /\ direct' = seek(direct, pos)
    /\ UNCHANGED << feature_zeroize, pc, key, iv, state, iter, call, subkey,
                    padded_iv, observed, trace, earlier >>

\* a read through the adapter (deref)
CurrentPos ==
    /\ pc = "ready"
    /\ observed' = current_pos(Deref(result))
    /\ UNCHANGED << feature_zeroize, pc, key, iv, state, iter, call, subkey,
                    padded_iv, result, direct, trace, earlier >>

\* the caller is done with the instance
Drop ==
    /\ pc = "ready"
    /\ pc' = "idle"
    /\ UNCHANGED << feature_zeroize, key, iv, state, iter, call, subkey,
                    padded_iv, result, observed, direct, trace, earlier >>

Next ==
    \/ \E j \in 0..(NumInputs - 1) : New(j)
    \/ HInit
    \/ HQuarterRound
    \/ HReturn
    \/ Pad
    \/ Construct
    \/ Return
    \/ \E len \in 1..MaxPos : ApplyKeystream(len)
    \/ \E pos \in 0..MaxPos : Seek(pos)
    \/ CurrentPos
    \/ Drop

Spec == Init /\ [][Next]_vars

---------------------------------------------------------------------------
(* Properties *)

\* position right after hchacha20 returned / after the inner cipher was built
AfterHChaCha == pc = "pad"
AfterConstruct == pc = "zeroize"

\* the 16-byte nonce prefix and the 8-byte suffix of the current call
Prefix == [i \in 0..15 |-> iv[i]]
Suffix == [i \in 0..7 |-> iv[16 + i]]

\* draft-arciszewski-xchacha-03, 2.2.1: the expected HChaCha20 output
TestOutput ==
    [i \in 0..31 |->
        << 130, 65, 59, 66, 39, 178, 123, 254, 211, 14, 66, 80, 138, 135, 125, 115,
           160, 249, 228, 213, 138, 116, 168, 83, 193, 46, 196, 19, 38, 211, 236, 220 >>[i + 1]]

\* C1: hchacha20 of the key 00..1f and the prefix 00 00 00 09 00 00 00 4a
\* 00 00 00 00 31 41 59 27 returns exactly the 32 bytes 82 41 3b 42 ... ec dc.
C1_KnownAnswer ==
    (AfterHChaCha /\ key = TestKey /\ Prefix = TestInput)
        => (subkey = TestOutput /\ hchacha20(key, Prefix) = TestOutput)

C1_Witness ==
    AfterHChaCha /\ key = TestKey /\ Prefix = TestInput /\ Len(trace) = 80

\* C2: new builds the inner ChaCha20 from exactly (hchacha20(key, nonce[0..16]),
\* 00 00 00 00 ++ nonce[16..24]), so the adapter is the cipher one gets by
\* building ChaCha20 directly from that independently computed pair.
C2_Construction ==
    LET expected_key == hchacha20(key, Prefix)
        expected_nonce == [i \in 0..11 |-> IF i < 4 THEN 0 ELSE Suffix[i - 4]]
    IN  AfterConstruct =>
            /\ result = << ChaCha20_new(expected_key, expected_nonce) >>
            /\ direct = ChaCha20_new(expected_key, expected_nonce)

C2_Witness ==
    /\ AfterConstruct
    /\ result # NoCipher
    /\ \E i \in 4..11 : Deref(result).nonce[i] # 0
    /\ Deref(result).key # key

\* C3: two invocations of new (and of hchacha20) with identical inputs yield the
\* same subkey, padded nonce and cipher, whatever was called before or between.
C3_Determinism ==
    /\ (AfterConstruct /\ earlier # NoEarlier /\ earlier.since > 0
            /\ earlier.run.key = key /\ earlier.run.iv = iv)
        => earlier.run = Snapshot(result)
    /\ (AfterHChaCha /\ earlier # NoEarlier /\ earlier.since > 0
            /\ earlier.run.key = key /\ Slice(earlier.run.iv, 0, 16) = Prefix)
        => earlier.run.subkey = subkey

\* the same inputs again, with at least one whole invocation in between
C3_Witness ==
    /\ AfterConstruct
    /\ earlier # NoEarlier
    /\ earlier.since = 2
    /\ earlier.run.key = key
    /\ earlier.run.iv = iv

\* C5: whatever is done through the adapter acts on its one inner ChaCha20: the
\* adapter always equals a ChaCha20 built from the same pair and driven alike.
C5_Delegation ==
    pc = "ready" => (result = << direct >> /\ Deref(result) = direct)

C5_Witness ==
    /\ pc = "ready"
    /\ current_pos(Deref(result)) = MaxPos
    /\ observed = MaxPos
    /\ direct.pos = MaxPos

\* the schedule as the specification gives it
ClaimedSchedule ==
    << << 0, 4, 8, 12 >>, << 1, 5, 9, 13 >>, << 2, 6, 10, 14 >>, << 3, 7, 11, 15 >>,
       << 0, 5, 10, 15 >>, << 1, 6, 11, 12 >>, << 2, 7, 8, 13 >>, << 3, 4, 9, 14 >> >>

\* C6: hchacha20 makes exactly 80 quarter_round calls in 10 iterations and then
\* stops; the calls of every iteration are, in order, the four column
\* quadruples and then the four diagonal ones.
C6_Schedule ==
    /\ \A n \in 1..Len(trace) : trace[n] = ClaimedSchedule[((n - 1) % 8) + 1]
    /\ Len(trace) <= 80
    /\ pc = "rounds" => (Len(trace) = 8 * iter + call /\ call \in 0..7 /\ iter <= 10)
    /\ pc \in {"pad", "construct", "zeroize", "ready"} => (Len(trace) = 80 /\ iter = 10)

C6_Witness == AfterHChaCha /\ Len(trace) = 80 /\ iter = 10

\* C7: before the first quarter round, words 0..3 are the four constants, word
\* 4+i is the little-endian value of key bytes [4i, 4i+4) and word 12+j that
\* of prefix bytes [4j, 4j+4); every byte is in exactly one word.
C7_InitialState ==
    (pc = "rounds" /\ trace = << >>) =>
        /\ state[0] = << 24944, 30821 >>
        /\ state[1] = << 13088, 25710 >>
        /\ state[2] = << 31074, 11570 >>
        /\ state[3] = << 27424, 25972 >>
        /\ \A i \in 0..7 :
              /\ state[4 + i][2] = key[4 * i] + 256 * key[4 * i + 1]
              /\ state[4 + i][1] = key[4 * i + 2] + 256 * key[4 * i + 3]
        /\ \A j \in 0..3 :
              /\ state[12 + j][2] = iv[4 * j] + 256 * iv[4 * j + 1]
              /\ state[12 + j][1] = iv[4 * j + 2] + 256 * iv[4 * j + 3]
        /\ \A b \in 0..31 : ByteLE(state[4 + (b \div 4)], b % 4) = key[b]
        /\ \A b \in 0..15 : ByteLE(state[12 + (b \div 4)], b % 4) = iv[b]

C7_Witness ==
    /\ pc = "rounds"
    /\ trace = << >>
    /\ key = InputKey(0)
    /\ \A i \in 4..15 : state[i] # ZeroWord

\* C8: the result is words 0..3 of the final state, little-endian, in bytes
\* [0,16) and words 12..15 in bytes [16,32), taken as they are; words 4..11
\* have no part in it.
C8_Output ==
    AfterHChaCha =>
        /\ DOMAIN subkey = 0..31
        /\ \A b \in 0..31 : subkey[b] \in 0..255
        /\ \A i \in 0..3 :
              /\ subkey[4 * i] + 256 * subkey[4 * i + 1] = state[i][2]
              /\ subkey[4 * i + 2] + 256 * subkey[4 * i + 3] = state[i][1]
              /\ subkey[16 + 4 * i] + 256 * subkey[16 + 4 * i + 1] = state[12 + i][2]
              /\ subkey[16 + 4 * i + 2] + 256 * subkey[16 + 4 * i + 3] = state[12 + i][1]
        /\ subkey = OutputOf([i \in 0..15 |-> IF i \in 4..11 THEN ZeroWord ELSE state[i]])

C8_Witness ==
    /\ AfterHChaCha
    /\ Len(trace) = 80
    /\ \E i \in 4..11 : state[i] # ZeroWord
    /\ state # InitialState(key, Prefix)

\* the words a logged call names
Touched(q) == { q[1], q[2], q[3], q[4] }

\* the calls n+1..n+4 of the log name 16 different words
RoundCovers(n) ==
    /\ \A x, y \in 1..4 : x # y => Touched(trace[n + x]) \cap Touched(trace[n + y]) = {}
    /\ UNION { Touched(trace[n + x]) : x \in 1..4 } = 0..15

\* the last four calls of the log form such a round
LastRoundCovers == RoundCovers(Len(trace) - 4)

\* C9: a quarter_round(a, b, c, d) call changes no word other than a, b, c, d,
\* and the four calls of each column round and of each diagonal round name
\* pairwise disjoint quadruples that cover all 16 words.
C9_Frame ==
    [][(pc = "rounds" /\ trace' # trace) =>
          /\ Len(trace') = Len(trace) + 1
          /\ \A i \in 0..15 :
                i \notin Touched(trace'[Len(trace')]) => state'[i] = state[i]
          /\ Cardinality(Touched(trace'[Len(trace')])) = 4
          /\ (Len(trace') % 4 = 0 => LastRoundCovers')
      ]_vars

C9_Witness ==
    /\ pc = "rounds"
    /\ Len(trace) = 8
    /\ \A i \in 0..15 : state[i] # InitialState(key, Prefix)[i]

\* C10: with zeroize, the subkey buffer is all zero when new returns; it is
\* still intact when the inner ChaCha20 is built from it, and the cipher's own
\* key is the derived subkey in both builds.
C10_Zeroize ==
    /\ (pc = "ready" /\ feature_zeroize) => subkey = [i \in 0..31 |-> 0]
    /\ pc \in {"pad", "construct", "zeroize"} => subkey = OutputOf(state)
    /\ AfterConstruct => Deref(result).key = subkey
    /\ pc \in {"zeroize", "ready"} => Deref(result).key = OutputOf(state)

C10_Witness ==
    /\ pc = "ready"
    /\ feature_zeroize
    /\ subkey = [i \in 0..31 |-> 0]
    /\ Deref(result).key # subkey

====
